---- MODULE Spec2Model ----
(***************************************************************************)
(* A model of scripts/bug_release.py: the severity-history walk of         *)
(* get_bugs.bug_handler, the shared aggregates it updates, and the         *)
(* sub-window query loop of get_bugs, and the record cache the script      *)
(* writes with --bzdata-save and reads with --bzdata-load.                 *)
(*                                                                         *)
(* Time is counted in days (integers).  A week key, which the script       *)
(* builds from isocalendar() and WFMT, is the week number day \div 7.      *)
(* A row of a flagged-bug list is represented by the bug's id.             *)
(* Python's list indexes are kept 0-based; None is the index -1.           *)
(***************************************************************************)
EXTENDS Integers, Sequences, FiniteSets, TLC

(***************************************************************************)
(* Program constants                                                       *)
(***************************************************************************)
SEVERITIES_LIST ==
    <<"enhancement", "trivial", "minor", "normal", "major", "critical", "blocker">>

SEVERITIES_GROUP_LIST ==
    <<"enhancement", "minor+trivial", "normal", "blocker+critical+major">>

SEVERITIES(sev) ==
    CASE sev \in {"blocker", "critical", "major"} -> "blocker+critical+major"
      [] sev = "normal" -> "normal"
      [] sev \in {"minor", "trivial"} -> "minor+trivial"
      [] sev = "enhancement" -> "enhancement"

\* The values of SEVERITIES: the rows of the aggregate table.
SeverityGroups == {SEVERITIES(SEVERITIES_LIST[i]) : i \in 1..Len(SEVERITIES_LIST)}

\* relativedelta(days=30): the length of a query sub-window.
WindowDays == 30

\* relativedelta(days=7): the step of get_weeks.
WeekDays == 7

\* Python's None, as an index.
None == -1

\* The values of the beta query's status-flag filter (v5).
BetaStatusValues ==
    {"affected", "fix-optional", "fixed", "wontfix", "verified", "disabled"}

(***************************************************************************)
(* Bounds of the model                                                     *)
(***************************************************************************)
\* Longest chained severity history drawn as an input.
MaxChanges == 2

\* Most changes in an unchained (irregular) history drawn as an input.
MaxIrregular == 1

\* Most bug records on the tracker in a run of the whole program.
MaxBugs == 2

VARIABLES
    nightly_start,              \* the four dates of productdates.get_product_dates
    beta_start,
    release_date,
    successor_release_date,
    python,                     \* major version of the interpreter: 2 or 3
    bzdata_save_path,           \* whether --bzdata-save was given
    bugzilla,                   \* the bug records the tracker holds
    data_opened,                \* [severity group -> [week -> count]]
    sev_lowered_and_increased,  \* flagged-bug list (ids)
    sev_increased_after_release,\* flagged-bug list (ids)
    bugzilla_data_to_save,      \* records saved under "opened" -> phase -> "data"
    queries,                    \* the Bugzilla queries built so far
    phase_idx,                  \* position of `for phase in phases`
    query_start,                \* the loop variable of the while loop
    pc,                         \* "build", "fetch", "wait", "done" or "failed"
    qi,                         \* position of `for q in queries`
    pending,                    \* bugs of the current response not yet handled
    first_beta,                 \* data_opened['first_beta'], None until it is set
    last,                       \* the latest bug_handler invocation and its outcome
    completed,                  \* number of bug_handler invocations that returned
    bzdata_load_path,           \* whether --bzdata-load was given
    bugzilla_data_loaded,       \* <<>> for None, <<document>> once loaded
    cache_file,                 \* data/bugzilla_data_<version>.json: <<>> or <<document>>
    load_idx,                   \* position of `for bug_data in bugzilla_data_loaded[...]`
    saved_run                   \* what the run that wrote the cache file returned

dates == <<nightly_start, beta_start, release_date, successor_release_date>>
aggregates == <<data_opened, sev_lowered_and_increased, sev_increased_after_release>>
control == <<queries, phase_idx, query_start, pc, qi, pending>>
disk == <<bzdata_load_path, bugzilla_data_loaded, cache_file, saved_run>>
vars == <<dates, python, bzdata_save_path, bugzilla, aggregates, first_beta,
          bugzilla_data_to_save, control, last, completed, disk, load_idx>>

(***************************************************************************)
(* Python helpers                                                          *)
(***************************************************************************)
\* v in list
Contains(list, v) == \E i \in 1..Len(list) : list[i] = v

\* list.index(v), 0-based; the caller has checked Contains (else ValueError).
ListIndex(list, v) == (CHOOSE i \in 1..Len(list) : list[i] = v) - 1

\* list[i] for a 0-based i
ListAt(list, i) == list[i + 1]

\* max(a, b) of two integers
PyMax(a, b) == IF a >= b THEN a ELSE b

\* Whether max(a, b) raises TypeError: Python 3 refuses to order None and an
\* int; Python 2 orders None below every int, so there max(None, b) = b, which
\* PyMax gives with None = -1.
MaxRaises(a, b) == python = 3 /\ (a = None \/ b = None)

\* The week key of a day: isocalendar() and WFMT.format(year, week).
WeekKey(day) == day \div WeekDays

RECURSIVE WeeksFrom(_, _)
WeeksFrom(start_date, end_date) ==
    IF WeekKey(start_date) <= WeekKey(end_date)
    THEN {WeekKey(start_date)} \cup WeeksFrom(start_date + WeekDays, end_date)
    ELSE {}

\* get_weeks(start_date, end_date), as the set of its keys
get_weeks(start_date, end_date) == WeeksFrom(start_date, end_date)

(***************************************************************************)
(* bug_handler: the walk over the severity history                         *)
(***************************************************************************)
\* The local variables of bug_handler before the loop (lines 104-118).
WalkStart ==
    [pre_release_phase |-> TRUE,
     severity_highest_index_before_release |-> None,
     severity_index_at_release |-> None,
     severity_highest_index_after_release |-> None,
     severity_index_last_processed |-> None,
     error |-> "",
     broke |-> FALSE]

\* The `if pre_release_phase and change_time > release_date` block.
CrossRelease(st, change_time, old, new) ==
    IF st.pre_release_phase /\ change_time > release_date
    THEN IF MaxRaises(st.severity_highest_index_before_release, old)
         THEN [st EXCEPT !.error = "TypeError"]
         ELSE [st EXCEPT !.pre_release_phase = FALSE,
                         !.severity_index_at_release = old,
                         !.severity_highest_index_before_release = PyMax(st.severity_highest_index_before_release, old),
                         !.severity_highest_index_after_release = new]
    ELSE st

\* The `if pre_release_phase: ... else: ...` block that follows it.
TrackHighest(st, old, new) ==
    IF st.pre_release_phase
    THEN [st EXCEPT !.severity_highest_index_before_release =
              PyMax(IF st.severity_highest_index_before_release = None THEN old ELSE st.severity_highest_index_before_release, new)]
    ELSE [st EXCEPT !.severity_highest_index_after_release =
              IF st.severity_highest_index_after_release = None THEN new ELSE PyMax(st.severity_highest_index_after_release, new)]

\* WalkChange with the cut-off test `>=`: a change at the successor release is
\* dropped too.
WalkChange_CutoffInclusive(st, when, change) ==
    IF change.field_name # "severity" THEN st
    ELSE IF ~Contains(SEVERITIES_LIST, change.removed)
            \/ ~Contains(SEVERITIES_LIST, change.added)
    THEN [st EXCEPT !.error = "ValueError"]
    ELSE LET old == ListIndex(SEVERITIES_LIST, change.removed)
             new == ListIndex(SEVERITIES_LIST, change.added)
         IN  IF when >= successor_release_date
             THEN [st EXCEPT !.severity_index_last_processed = IF @ = None THEN old ELSE @,
                             !.broke = TRUE]
             ELSE LET crossed == CrossRelease(st, when, old, new)
                  IN  IF crossed.error # "" THEN crossed
                      ELSE TrackHighest(crossed, old, new)

\* WalkChange skipping a change whose value is outside the enumeration.
WalkChange_SkipsInvalid(st, when, change) ==
    IF change.field_name # "severity" THEN st
    ELSE IF ~Contains(SEVERITIES_LIST, change.removed)
            \/ ~Contains(SEVERITIES_LIST, change.added)
    THEN st
    ELSE LET old == ListIndex(SEVERITIES_LIST, change.removed)
             new == ListIndex(SEVERITIES_LIST, change.added)
         IN  IF when > successor_release_date
             THEN [st EXCEPT !.severity_index_last_processed = IF @ = None THEN old ELSE @,
                             !.broke = TRUE]
             ELSE LET crossed == CrossRelease(st, when, old, new)
                  IN  IF crossed.error # "" THEN crossed
                      ELSE TrackHighest(crossed, old, new)

\* The body of `for change in historyItem['changes']` for one change.
WalkChange(st, when, change) ==
    IF change.field_name # "severity" THEN st
    ELSE IF ~Contains(SEVERITIES_LIST, change.removed)
            \/ ~Contains(SEVERITIES_LIST, change.added)
    THEN [st EXCEPT !.error = "ValueError"]
    ELSE LET old == ListIndex(SEVERITIES_LIST, change.removed)
             new == ListIndex(SEVERITIES_LIST, change.added)
         IN  IF when > successor_release_date
             THEN [st EXCEPT !.severity_index_last_processed = IF @ = None THEN old ELSE @,
                             !.broke = TRUE]
             ELSE LET crossed == CrossRelease(st, when, old, new)
                  IN  IF crossed.error # "" THEN crossed
                      ELSE TrackHighest(crossed, old, new)

\* `for change in historyItem['changes']`: `break` leaves this loop only.
RECURSIVE WalkChanges(_, _, _, _)
WalkChanges(st, when, changes, i) ==
    IF i > Len(changes) \/ st.error # "" \/ st.broke THEN st
    ELSE WalkChanges(WalkChange(st, when, changes[i]), when, changes, i + 1)

\* `for historyItem in bug_data['history']`
RECURSIVE WalkHistory(_, _, _)
WalkHistory(st, history, i) ==
    IF i > Len(history) \/ st.error # "" THEN st
    ELSE WalkHistory(
             [WalkChanges(st, history[i].when, history[i].changes, 1)
                  EXCEPT !.broke = FALSE],
             history, i + 1)

\* Lines 160-168: the fallbacks after the loop.
Fallbacks(st, severity_current_index) ==
    LET lp == IF st.severity_index_last_processed = None THEN severity_current_index
              ELSE st.severity_index_last_processed
    IN  IF st.pre_release_phase
        THEN [st EXCEPT !.severity_index_last_processed = lp,
                        !.severity_highest_index_before_release = IF @ = None THEN lp ELSE @,
                        !.severity_index_at_release = IF @ = None THEN lp ELSE @,
                        !.severity_highest_index_after_release = IF st.severity_index_at_release = None THEN lp ELSE @]
        ELSE [st EXCEPT !.severity_index_last_processed = lp]

\* Lines 104-174: the three severities of a bug record, or the error raised.
Reconstruct(bug_data) ==
    IF ~Contains(SEVERITIES_LIST, bug_data.severity)
    THEN [WalkStart EXCEPT !.error = "ValueError"]
    ELSE LET st == WalkHistory(WalkStart, bug_data.history, 1)
         IN  IF st.error # "" THEN st
             ELSE Fallbacks(st, ListIndex(SEVERITIES_LIST, bug_data.severity))

\* SEVERITIES_GROUP_LIST.index(SEVERITIES[SEVERITIES_LIST[index]])
GroupIndex(index) ==
    ListIndex(SEVERITIES_GROUP_LIST, SEVERITIES(ListAt(SEVERITIES_LIST, index)))

\* LoweredAndIncreased comparing severities, not their groups.
LoweredAndIncreased_RawOrder(st) ==
    /\ st.severity_highest_index_before_release > st.severity_index_at_release
    /\ st.severity_highest_index_after_release > st.severity_index_at_release

\* Line 184: the condition of the append to sev_lowered_and_increased.
LoweredAndIncreased(st) ==
    /\ GroupIndex(st.severity_highest_index_before_release) > GroupIndex(st.severity_index_at_release)
    /\ GroupIndex(st.severity_highest_index_after_release) > GroupIndex(st.severity_index_at_release)

\* IncreasedAfterRelease comparing with the severity before the release.
IncreasedAfterRelease_AgainstBefore(st) ==
    GroupIndex(st.severity_highest_index_after_release) > GroupIndex(st.severity_highest_index_before_release)

\* Line 201: the condition of the append to sev_increased_after_release.
IncreasedAfterRelease(st) ==
    GroupIndex(st.severity_highest_index_after_release) > GroupIndex(st.severity_index_at_release)

\* HighestGroup without the severity after the release.
HighestGroup_BeforeOnly(st) ==
    ListAt(SEVERITIES_GROUP_LIST, GroupIndex(st.severity_highest_index_before_release))

\* Line 229: the row of the aggregate table the bug is counted in.
HighestGroup(st) ==
    ListAt(SEVERITIES_GROUP_LIST,
           PyMax(GroupIndex(st.severity_highest_index_before_release), GroupIndex(st.severity_highest_index_after_release)))

\* The name of a severity index, "None" for None.
SevName(index) == IF index = None THEN "None" ELSE ListAt(SEVERITIES_LIST, index)

\* Increment storing 1 instead of adding it.
Increment_Overwrites(table, group, t) ==
    [table EXCEPT ![group][t] = 1]

\* Line 230: data_opened[sev_group_highest][t] += 1
Increment(table, group, t) ==
    [table EXCEPT ![group][t] = @ + 1]

\* add_bugzilla_data_to_save(['opened', phase], bug_data)
add_bugzilla_data_to_save(store, phase, bug_data) ==
    IF phase \in DOMAIN store
    THEN [store EXCEPT ![phase] = Append(@, bug_data)]
    ELSE [p \in DOMAIN store \cup {phase} |->
              IF p = phase THEN <<bug_data>> ELSE store[p]]

\* Lines 98-99: other_data['data_opened'] and other_data['phase'] are there.
HasKeys(other_data) ==
    /\ "data_opened" \in DOMAIN other_data
    /\ "phase" \in DOMAIN other_data

\* No invocation yet.
NoLast ==
    [bug |-> [id |-> 0], outcome |-> "none",
     before |-> "None", at |-> "None", after |-> "None"]

\* One invocation of bug_handler(bug_data, other_data), by the callback of a
\* response or by the loop over the loaded records.  An exception ends the
\* run.  Lines 98-99 look 'data_opened' and 'phase' up in other_data, which
\* raises KeyError when other_data has no such key.
bug_handler(bug_data, other_data) ==
    LET st == Reconstruct(bug_data)
        t == WeekKey(bug_data.creation_time)
        lowered == IF LoweredAndIncreased(st)
                   THEN Append(sev_lowered_and_increased, bug_data.id)
                   ELSE sev_lowered_and_increased
        increased == IF IncreasedAfterRelease(st)
                     THEN Append(sev_increased_after_release, bug_data.id)
                     ELSE sev_increased_after_release
    IN  /\ pending' = pending \ {bug_data}
        /\ bugzilla_data_to_save' =
               IF bzdata_save_path /\ HasKeys(other_data)
               THEN add_bugzilla_data_to_save(bugzilla_data_to_save,
                                              other_data.phase, bug_data)
               ELSE bugzilla_data_to_save
        /\ IF ~HasKeys(other_data)
           THEN /\ last' = [bug |-> bug_data, outcome |-> "KeyError_other_data",
                            before |-> "None", at |-> "None", after |-> "None"]
                /\ pc' = "failed"
                /\ UNCHANGED <<aggregates, completed>>
           ELSE IF st.error # ""
           THEN /\ last' = [bug |-> bug_data, outcome |-> st.error,
                            before |-> "None", at |-> "None", after |-> "None"]
                /\ pc' = "failed"
                /\ UNCHANGED <<aggregates, completed>>
           ELSE /\ sev_lowered_and_increased' = lowered
                /\ sev_increased_after_release' = increased
                /\ IF t \in DOMAIN data_opened[HighestGroup(st)]
                   THEN /\ data_opened' = Increment(data_opened, HighestGroup(st), t)
                        /\ completed' = completed + 1
                        /\ pc' = pc
                        /\ last' = [bug |-> bug_data, outcome |-> "ok",
                                    before |-> SevName(st.severity_highest_index_before_release),
                                    at |-> SevName(st.severity_index_at_release),
                                    after |-> SevName(st.severity_highest_index_after_release)]
                   ELSE /\ pc' = "failed"
                        /\ last' = [bug |-> bug_data, outcome |-> "KeyError",
                                    before |-> SevName(st.severity_highest_index_before_release),
                                    at |-> SevName(st.severity_index_at_release),
                                    after |-> SevName(st.severity_highest_index_after_release)]
                        /\ UNCHANGED <<data_opened, completed>>
        /\ UNCHANGED <<dates, python, disk, bzdata_save_path, bugzilla, first_beta,
                       queries, phase_idx, query_start, qi>>

(***************************************************************************)
(* The record cache: the JSON document and the lookups of the load path    *)
(***************************************************************************)
\* json.dumps(bugzilla_data_to_save) as json.load gives it back: the nodes
\* add_bugzilla_data_to_save made.  The node 'opened' is there once a record
\* was saved; it has a child 'data', which stays empty, and one child per
\* phase that saved a record, whose child 'data' holds the records in the
\* order they were saved.  The records are JSON values of the tracker's
\* answer, which the two conversions give back as they were.
Document(store) ==
    IF DOMAIN store = {}
    THEN [n \in {} |-> <<>>]
    ELSE [n \in {"opened"} |->
             [c \in {"data"} \cup DOMAIN store |->
                  IF c = "data" THEN <<>> ELSE [data |-> store[c]]]]

\* bugzilla_data_loaded['opened']['nightly'] raises no KeyError (line 243).
HasNightly ==
    /\ bugzilla_data_loaded # <<>>
    /\ "opened" \in DOMAIN bugzilla_data_loaded[1]
    /\ "nightly" \in DOMAIN bugzilla_data_loaded[1]["opened"]

\* bugzilla_data_loaded['opened']['nightly']['data'] (line 243)
LoadedRecords == bugzilla_data_loaded[1]["opened"]["nightly"].data

\* Neither option at work and no cache file: lines 68, 440 and an empty disk.
NoCache ==
    /\ bzdata_load_path = FALSE
    /\ bugzilla_data_loaded = <<>>
    /\ cache_file = <<>>
    /\ load_idx = 1
    /\ saved_run = <<>>

(***************************************************************************)
(* get_bugs: the query loop and the fetches                                *)
(***************************************************************************)
\* The list `phases` (lines 298-311).
phases ==
    <<[name |-> "nightly", start_date |-> nightly_start, end_date |-> beta_start],
      [name |-> "beta", start_date |-> beta_start, end_date |-> release_date]>>

\* min(query_end, phase['end_date'])
PyMin(a, b) == IF a <= b THEN a ELSE b

\* SubWindow without the min: the last range runs past the phase's end.
SubWindow_NoMin(phase, q) ==
    [phase |-> phase.name, v1 |-> q, v2 |-> q + WindowDays]

\* Lines 318-335: the query of the sub-window that starts at q.
SubWindow(phase, q) ==
    [phase |-> phase.name, v1 |-> q, v2 |-> PyMin(q + WindowDays, phase.end_date)]

\* Lines 317-336: one turn of `while query_start <= phase['end_date']`.
BuildQuery ==
    /\ pc = "build"
    /\ phase_idx <= Len(phases)
    /\ query_start <= phases[phase_idx].end_date
    /\ queries' = Append(queries, SubWindow(phases[phase_idx], query_start))
    /\ query_start' = query_start + WindowDays
    /\ UNCHANGED <<dates, python, disk, load_idx, bzdata_save_path, bugzilla, aggregates, first_beta,
                   bugzilla_data_to_save, phase_idx, pc, qi, pending, last, completed>>

\* The while loop ends: `for phase in phases` takes the next phase (line 313),
\* or the loop over the phases ends and `for q in queries` starts.
NextPhase ==
    /\ pc = "build"
    /\ phase_idx <= Len(phases)
    /\ query_start > phases[phase_idx].end_date
    /\ phase_idx' = phase_idx + 1
    /\ IF phase_idx + 1 <= Len(phases)
       THEN /\ query_start' = phases[phase_idx + 1].start_date
            /\ pc' = "build"
       ELSE /\ query_start' = query_start
            /\ pc' = "fetch"
    /\ UNCHANGED <<dates, python, disk, load_idx, bzdata_save_path, bugzilla, aggregates, first_beta,
                   bugzilla_data_to_save, queries, qi, pending, last, completed>>

\* The tracker's answer to a query: the filters f1..f5 of nightly_params and
\* beta_params (lines 261-296).
Matches(bug, q) ==
    /\ bug.creation_time >= q.v1
    /\ bug.creation_time < q.v2
    /\ bug.severity # "enhancement"
    /\ ~bug.meta
    /\ q.phase = "beta" => bug.status_flag \in BetaStatusValues

Response(q) == {bug \in bugzilla : Matches(bug, q)}

\* q.get_data() (line 341): the query is sent and its bugs come back.
GetData ==
    /\ pc = "fetch"
    /\ qi <= Len(queries)
    /\ pending' = Response(queries[qi])
    /\ pc' = "wait"
    /\ UNCHANGED <<dates, python, disk, load_idx, bzdata_save_path, bugzilla, aggregates, first_beta,
                   bugzilla_data_to_save, queries, phase_idx, query_start, qi,
                   last, completed>>

\* The callback of the response: bug_handler on one of its bugs.
Callback ==
    /\ pc = "wait"
    /\ \E bug_data \in pending :
          bug_handler(bug_data, [phase |-> queries[qi].phase,
                                 data_opened |-> data_opened])
    /\ load_idx' = load_idx

\* .wait() (line 341) returns once every bug of the response is handled.
Wait ==
    /\ pc = "wait"
    /\ pending = {}
    /\ qi' = qi + 1
    /\ pc' = "fetch"
    /\ UNCHANGED <<dates, python, disk, load_idx, bzdata_save_path, bugzilla, aggregates, first_beta,
                   bugzilla_data_to_save, queries, phase_idx, query_start,
                   pending, last, completed>>

\* Lines 343-350: the first-beta week is stored and get_bugs returns.
Return ==
    /\ IF bzdata_load_path
       THEN pc = "load" /\ HasNightly /\ load_idx > Len(LoadedRecords)
       ELSE pc = "fetch" /\ qi > Len(queries)
    /\ first_beta' = WeekKey(beta_start)
    /\ pc' = "done"
    /\ UNCHANGED <<dates, python, disk, load_idx, bzdata_save_path, bugzilla, aggregates,
                   bugzilla_data_to_save, queries, phase_idx, query_start, qi,
                   pending, last, completed>>

\* Lines 235-236: the table of zeros over the weeks from nightly to release.
EmptyTable(start_date, end_date) ==
    [sev \in SeverityGroups |-> [w \in get_weeks(start_date, end_date) |-> 0]]

(***************************************************************************)
(* Inputs                                                                  *)
(***************************************************************************)
Bug(id, creation_time, severity, status_flag, meta, history) ==
    [id |-> id, creation_time |-> creation_time, severity |-> severity,
     status_flag |-> status_flag, meta |-> meta, history |-> history]

SeverityChange(old, new) ==
    [field_name |-> "severity", removed |-> old, added |-> new]

OtherChange == [field_name |-> "priority", removed |-> "P1", added |-> "P2"]

Severities == {SEVERITIES_LIST[i] : i \in 1..Len(SEVERITIES_LIST)}

\* Change times around the two cut-offs: before the release, at it, between
\* the two, at the successor release, after it.
HistoryTimes(d) ==
    {d.release_date - 20, d.release_date, d.release_date + 10,
     d.successor_release_date, d.successor_release_date + 1}

Ascending(t) == \A i \in 1..(Len(t) - 1) : t[i] <= t[i + 1]

\* The history of a bug created as s0 whose severity then became v[1], v[2],
\* ... at the times t[1], t[2], ...: one severity change per history item.
ChainedHistory(s0, t, v) ==
    [i \in 1..Len(t) |->
        [when |-> t[i],
         changes |-> <<SeverityChange(IF i = 1 THEN s0 ELSE v[i - 1], v[i])>>]]

ChainedBug(d, s0, t, v) ==
    Bug(1, d.nightly_start, IF Len(t) = 0 THEN s0 ELSE v[Len(t)], "affected", FALSE,
        ChainedHistory(s0, t, v))

AscendingTimes(d, n) == {t \in [1..n -> HistoryTimes(d)] : Ascending(t)}

\* Values of unchained histories: two groups and a value outside the
\* enumeration.
IrregularValues == {"minor", "critical", "--"}

IrregularChanges ==
    {SeverityChange(a, b) : a, b \in IrregularValues} \cup {OtherChange}

\* The history items of the changes c[from..] at the times t[from..]; joined[i]
\* says that change i is in the history item of change i - 1.
RECURSIVE Items(_, _, _, _)
Items(c, t, joined, from) ==
    IF from > Len(c) THEN <<>>
    ELSE LET rest == Items(c, t, joined, from + 1)
         IN  IF from < Len(c) /\ joined[from + 1]
             THEN <<[when |-> t[from],
                     changes |-> <<c[from]>> \o rest[1].changes]>> \o Tail(rest)
             ELSE <<[when |-> t[from], changes |-> <<c[from]>>]>> \o rest

\* The ways to group n changes at the times t into history items.
Joinings(t, n) ==
    {j \in [1..n -> BOOLEAN] :
        /\ n >= 1 => ~j[1]
        /\ \A i \in 2..n : j[i] => t[i] = t[i - 1]}

IrregularBug(d, created, sev, c, t, joined) ==
    Bug(2, created, sev, "affected", FALSE, Items(c, t, joined, 1))

\* Creation days inside and outside the weeks of the aggregate table.
IrregularCreationDays(d) == {d.nightly_start, d.nightly_start - WeekDays}

\* The bug records of a run of the whole program: a few histories, each at a
\* few creation days of the window.
RunHistories(d) ==
    LET pre == d.release_date - 20
        post == d.release_date + 10
        one(t, a, b) == [when |-> t, changes |-> <<SeverityChange(a, b)>>]
        everywhere == {d.nightly_start, d.beta_start - 1, d.beta_start,
                       d.release_date - 1}
    IN  <<[severity |-> "critical", status_flag |-> "affected", meta |-> FALSE,
           history |-> <<one(pre, "normal", "minor"), one(post, "minor", "critical")>>,
           days |-> everywhere],
          [severity |-> "normal", status_flag |-> "fixed", meta |-> FALSE,
           history |-> <<>>,
           days |-> everywhere],
          [severity |-> "normal", status_flag |-> "verified", meta |-> FALSE,
           history |-> <<one(pre, "major", "trivial"), one(post, "trivial", "normal")>>,
           days |-> everywhere],
          [severity |-> "major", status_flag |-> "unaffected", meta |-> FALSE,
           history |-> <<one(pre, "minor", "normal"), one(post, "normal", "major")>>,
           days |-> {d.beta_start - 1, d.beta_start}],
          [severity |-> "critical", status_flag |-> "affected", meta |-> FALSE,
           history |-> <<one(post, "major", "critical")>>,
           days |-> {d.release_date - 1}],
          [severity |-> "enhancement", status_flag |-> "affected", meta |-> FALSE,
           history |-> <<one(pre, "normal", "enhancement")>>,
           days |-> {d.beta_start}],
          [severity |-> "minor", status_flag |-> "wontfix", meta |-> TRUE,
           history |-> <<>>,
           days |-> {d.beta_start}]>>

RunBugs(d) ==
    UNION {
      {Bug(100 * k + created, created, RunHistories(d)[k].severity,
           RunHistories(d)[k].status_flag, RunHistories(d)[k].meta,
           RunHistories(d)[k].history) :
         created \in RunHistories(d)[k].days} :
      k \in 1..Len(RunHistories(d))}

\* The subsets of pool with at most k elements.
RECURSIVE SubsetsUpTo(_, _)
SubsetsUpTo(pool, k) ==
    IF k = 0 THEN {{}}
    ELSE LET smaller == SubsetsUpTo(pool, k - 1)
         IN  smaller \cup {db \cup {bug} : db \in smaller, bug \in pool}

\* Lengths of the nightly and the beta phase in days: shorter than a
\* sub-window, a whole number of sub-windows, and in between.
NightlyDays == {0, 30, 45}
BetaDays == {15, 60}

DateConfigs ==
    {[nightly_start |-> 0, beta_start |-> n, release_date |-> n + b,
      successor_release_date |-> n + b + 20] : n \in NightlyDays, b \in BetaDays}

\* The dates under which single invocations of bug_handler are studied.
HandlerDates ==
    [nightly_start |-> 0, beta_start |-> 20, release_date |-> 30,
     successor_release_date |-> 50]

SetDates(d) ==
    /\ nightly_start = d.nightly_start
    /\ beta_start = d.beta_start
    /\ release_date = d.release_date
    /\ successor_release_date = d.successor_release_date

(***************************************************************************)
(* The whole program: get_bugs from its first line with --bzdata-load      *)
(* absent                                                                  *)
(***************************************************************************)
Init ==
    /\ \E d \in DateConfigs :
          /\ SetDates(d)
          /\ bugzilla \in SubsetsUpTo(RunBugs(d), MaxBugs)
    /\ python \in {2, 3}
    /\ bzdata_save_path \in BOOLEAN
    /\ data_opened = EmptyTable(nightly_start, release_date)
    /\ sev_lowered_and_increased = <<>>
    /\ sev_increased_after_release = <<>>
    /\ bugzilla_data_to_save = [p \in {} |-> <<>>]
    /\ queries = <<>>
    /\ phase_idx = 1
    /\ query_start = nightly_start
    /\ pc = "build"
    /\ qi = 1
    /\ pending = {}
    /\ first_beta = None
    /\ last = NoLast
    /\ completed = 0
    /\ NoCache

Next ==
    \/ BuildQuery
    \/ NextPhase
    \/ GetData
    \/ Callback
    \/ Wait
    \/ Return

Spec == Init /\ [][Next]_vars

(***************************************************************************)
(* A run with --bzdata-save followed by a run with --bzdata-load           *)
(***************************************************************************)
\* Lines 465-469: after get_bugs returned and the CSV files are written, the
\* saved records are written as JSON.  The file written is always
\* data/bugzilla_data_<version>.json, which is also what --bzdata-load reads
\* when it is given no path.
WriteCache ==
    /\ pc = "done"
    /\ bzdata_save_path
    /\ cache_file' = <<Document(bugzilla_data_to_save)>>
    /\ saved_run' = <<[data_opened |-> data_opened,
                       sev_lowered_and_increased |-> sev_lowered_and_increased,
                       sev_increased_after_release |-> sev_increased_after_release,
                       records |-> bugzilla_data_to_save]>>
    /\ pc' = "exit"
    /\ UNCHANGED <<dates, python, bzdata_save_path, bugzilla, aggregates,
                   first_beta, bugzilla_data_to_save, queries, phase_idx,
                   query_start, qi, pending, last, completed,
                   bzdata_load_path, bugzilla_data_loaded, load_idx>>

\* The script is started again for the same version with --bzdata-load:
\* lines 438-451 read the dates and the cache file, lines 232-239 start
\* get_bugs with empty lists and a table of zeros.
LoadRun ==
    /\ pc = "exit"
    /\ ~bzdata_load_path
    /\ cache_file # <<>>
    /\ bzdata_load_path' = TRUE
    /\ bugzilla_data_loaded' = cache_file
    /\ bzdata_save_path' \in BOOLEAN
    /\ bugzilla_data_to_save' = [p \in {} |-> <<>>]
    /\ data_opened' = EmptyTable(nightly_start, release_date)
    /\ sev_lowered_and_increased' = <<>>
    /\ sev_increased_after_release' = <<>>
    /\ first_beta' = None
    /\ queries' = <<>>
    /\ pending' = {}
    /\ last' = NoLast
    /\ completed' = 0
    /\ load_idx' = 1
    /\ pc' = "load"
    /\ UNCHANGED <<dates, python, bugzilla, phase_idx, query_start, qi,
                   cache_file, saved_run>>

\* Lines 242-244: one turn of `for bug_data in
\* bugzilla_data_loaded['opened']['nightly']['data']`, which calls
\* bug_handler(bug_data, data_opened); the lookup of the list raises KeyError
\* when the document has no such node.
LoadData ==
    /\ pc = "load"
    /\ IF ~HasNightly
       THEN /\ pc' = "failed"
            /\ last' = [NoLast EXCEPT !.outcome = "KeyError_loaded"]
            /\ UNCHANGED <<dates, python, disk, bzdata_save_path, bugzilla,
                           aggregates, first_beta, bugzilla_data_to_save,
                           queries, phase_idx, query_start, qi, pending,
                           completed, load_idx>>
       ELSE /\ load_idx <= Len(LoadedRecords)
            /\ bug_handler(LoadedRecords[load_idx], data_opened)
            /\ load_idx' = load_idx + 1

InitCache ==
    /\ \E d \in DateConfigs :
          /\ SetDates(d)
          /\ bugzilla \in SubsetsUpTo(RunBugs(d), MaxBugs)
    /\ python \in {2, 3}
    /\ bzdata_save_path = TRUE
    /\ data_opened = EmptyTable(nightly_start, release_date)
    /\ sev_lowered_and_increased = <<>>
    /\ sev_increased_after_release = <<>>
    /\ bugzilla_data_to_save = [p \in {} |-> <<>>]
    /\ queries = <<>>
    /\ phase_idx = 1
    /\ query_start = nightly_start
    /\ pc = "build"
    /\ qi = 1
    /\ pending = {}
    /\ first_beta = None
    /\ last = NoLast
    /\ completed = 0
    /\ NoCache

NextCache ==
    \/ BuildQuery
    \/ NextPhase
    \/ GetData
    \/ Callback
    \/ Wait
    \/ Return
    \/ WriteCache
    \/ LoadRun
    \/ LoadData

SpecCache == InitCache /\ [][NextCache]_vars

(***************************************************************************)
(* Single invocations of bug_handler: get_bugs at the callback of its      *)
(* first response, which holds one bug record drawn from the inputs        *)
(***************************************************************************)
\* The queries the loop of one phase builds from q on, and where it stops.
RECURSIVE PhaseQueries(_, _)
PhaseQueries(phase, q) ==
    IF q <= phase.end_date
    THEN <<SubWindow(phase, q)>> \o PhaseQueries(phase, q + WindowDays)
    ELSE <<>>

InitHandler ==
    /\ SetDates(HandlerDates)
    /\ \/ \E n \in 0..MaxChanges :
             \E t \in AscendingTimes(HandlerDates, n) :
                \E s0 \in Severities, v \in [1..n -> Severities] :
                   pending = {ChainedBug(HandlerDates, s0, t, v)}
       \/ \E n \in 0..MaxIrregular :
             \E t \in [1..n -> HistoryTimes(HandlerDates)] :
                \E c \in [1..n -> IrregularChanges], joined \in Joinings(t, n),
                   created \in IrregularCreationDays(HandlerDates),
                   sev \in IrregularValues :
                   pending = {IrregularBug(HandlerDates, created, sev, c, t, joined)}
    /\ bugzilla = pending
    /\ python \in {2, 3}
    /\ bzdata_save_path = FALSE
    /\ data_opened = EmptyTable(nightly_start, release_date)
    /\ sev_lowered_and_increased = <<>>
    /\ sev_increased_after_release = <<>>
    /\ bugzilla_data_to_save = [p \in {} |-> <<>>]
    /\ queries = PhaseQueries(phases[1], nightly_start)
                     \o PhaseQueries(phases[2], beta_start)
    /\ phase_idx = Len(phases) + 1
    /\ query_start = beta_start + WindowDays * Len(PhaseQueries(phases[2], beta_start))
    /\ pc = "wait"
    /\ qi = 1
    /\ first_beta = None
    /\ last = NoLast
    /\ completed = 0
    /\ NoCache

NextHandler == Callback

SpecHandler == InitHandler /\ [][NextHandler]_vars

(***************************************************************************)
(* What the claims speak of, stated apart from the walk                    *)
(***************************************************************************)
\* The position of a severity in the order of the enumeration.
SeverityRank(sev) ==
    CASE sev = "enhancement" -> 0
      [] sev = "trivial" -> 1
      [] sev = "minor" -> 2
      [] sev = "normal" -> 3
      [] sev = "major" -> 4
      [] sev = "critical" -> 5
      [] sev = "blocker" -> 6

\* The position of a severity's group in the order of the four groups.
GroupRank(sev) ==
    CASE sev = "enhancement" -> 0
      [] sev \in {"trivial", "minor"} -> 1
      [] sev = "normal" -> 2
      [] sev \in {"major", "critical", "blocker"} -> 3

HighestOf(sevs) == CHOOSE s \in sevs : \A o \in sevs : SeverityRank(o) <= SeverityRank(s)

IsSeverityChange(change) == change.field_name = "severity"

\* The severity changes of a history in the order of the walk, each with the
\* time of its history item.
RECURSIVE SeverityChangesFrom(_, _)
SeverityChangesFrom(history, i) ==
    IF i > Len(history) THEN <<>>
    ELSE LET sel == SelectSeq(history[i].changes, IsSeverityChange)
         IN  [k \in 1..Len(sel) |->
                 [when |-> history[i].when, removed |-> sel[k].removed,
                  added |-> sel[k].added]]
             \o SeverityChangesFrom(history, i + 1)

SeverityChanges(bug) == SeverityChangesFrom(bug.history, 1)

ValidValues(bug) ==
    /\ bug.severity \in Severities
    /\ \A k \in 1..Len(SeverityChanges(bug)) :
          /\ SeverityChanges(bug)[k].removed \in Severities
          /\ SeverityChanges(bug)[k].added \in Severities

AscendingHistory(bug) ==
    \A k \in 1..(Len(SeverityChanges(bug)) - 1) :
        SeverityChanges(bug)[k].when <= SeverityChanges(bug)[k + 1].when

ChainedHistoryOf(bug) ==
    LET f == SeverityChanges(bug)
    IN  /\ \A k \in 1..(Len(f) - 1) : f[k + 1].removed = f[k].added
        /\ Len(f) > 0 => f[Len(f)].added = bug.severity

AscendingChained(bug) ==
    ValidValues(bug) /\ AscendingHistory(bug) /\ ChainedHistoryOf(bug)

CreationSeverity(bug) ==
    IF SeverityChanges(bug) = <<>> THEN bug.severity
    ELSE SeverityChanges(bug)[1].removed

\* The changes no later than the release, and those after it and no later
\* than the successor release.
UpToRelease(bug) ==
    {k \in 1..Len(SeverityChanges(bug)) : SeverityChanges(bug)[k].when <= release_date}

AfterRelease(bug) ==
    {k \in 1..Len(SeverityChanges(bug)) :
        /\ SeverityChanges(bug)[k].when > release_date
        /\ SeverityChanges(bug)[k].when <= successor_release_date}

AfterCutoff(bug) ==
    {k \in 1..Len(SeverityChanges(bug)) :
        SeverityChanges(bug)[k].when > successor_release_date}

NewValues(bug, ks) == {SeverityChanges(bug)[k].added : k \in ks}

Latest(ks) == CHOOSE k \in ks : \A o \in ks : o <= k
Earliest(ks) == CHOOSE k \in ks : \A o \in ks : k <= o

ExpectedBefore(bug) ==
    HighestOf({CreationSeverity(bug)} \cup NewValues(bug, UpToRelease(bug)))

ExpectedAtRelease(bug) ==
    IF UpToRelease(bug) = {} THEN CreationSeverity(bug)
    ELSE SeverityChanges(bug)[Latest(UpToRelease(bug))].added

ExpectedAfter(bug) ==
    IF AfterRelease(bug) = {} THEN ExpectedAtRelease(bug)
    ELSE HighestOf(NewValues(bug, AfterRelease(bug)))

\* bug_handler was invoked and came to its three severities.
Classified == last.outcome \in {"ok", "KeyError"}

Invoked == last.outcome # "none"

(***************************************************************************)
(* C1-C3: the three severities of an ascending, chained history            *)
(***************************************************************************)
\* C1: for every bug record with an ascending, chained severity history,
\* bug_handler computes severity_before as the highest severity among the
\* creation-time severity and the new values of the changes no later than the
\* release; with no change before the release that is the creation-time
\* severity.
C1_SeverityBefore ==
    (Invoked /\ AscendingChained(last.bug)) =>
        (Classified /\ last.before = ExpectedBefore(last.bug))

\* C1 where max(None, int) is defined (Python 2): the value is as claimed.
C1_UnderPython2 ==
    (Invoked /\ AscendingChained(last.bug) /\ python = 2) =>
        (Classified /\ last.before = ExpectedBefore(last.bug))

\* C2: for every bug record with an ascending, chained severity history,
\* bug_handler computes severity_at_release as the new value of the latest
\* change at or before the release, or the creation-time severity if there is
\* none.
C2_SeverityAtRelease ==
    (Invoked /\ AscendingChained(last.bug)) =>
        (Classified /\ last.at = ExpectedAtRelease(last.bug))

\* C2 where max(None, int) is defined (Python 2).
C2_UnderPython2 ==
    (Invoked /\ AscendingChained(last.bug) /\ python = 2) =>
        (Classified /\ last.at = ExpectedAtRelease(last.bug))

\* C3: for every bug record with an ascending, chained severity history,
\* bug_handler computes severity_after as the highest new value of the changes
\* after the release and not after the successor release, or
\* severity_at_release if there is none.
C3_SeverityAfter ==
    (Invoked /\ AscendingChained(last.bug)) =>
        (Classified /\ last.after = ExpectedAfter(last.bug)
                    /\ (AfterRelease(last.bug) = {} => last.after = last.at))

\* C3 where max(None, int) is defined (Python 2).
C3_UnderPython2 ==
    (Invoked /\ AscendingChained(last.bug) /\ python = 2) =>
        (Classified /\ last.after = ExpectedAfter(last.bug)
                    /\ (AfterRelease(last.bug) = {} => last.after = last.at))

\* The walk under Python 3 fails exactly on the histories whose first
\* in-window change is after the release.
FirstChangeAfterRelease(bug) ==
    /\ UpToRelease(bug) = {}
    /\ AfterRelease(bug) # {}

C1_Python3Fails ==
    (Invoked /\ AscendingChained(last.bug) /\ python = 3) =>
        IF FirstChangeAfterRelease(last.bug)
        THEN last.outcome = "TypeError"
        ELSE Classified /\ last.before = ExpectedBefore(last.bug)
                        /\ last.at = ExpectedAtRelease(last.bug)
                        /\ last.after = ExpectedAfter(last.bug)

(***************************************************************************)
(* C4: the two flags                                                       *)
(***************************************************************************)
\* The scenario of the specification: created as normal, lowered to minor 20
\* days before the release, raised to critical 10 days after it.
ScenarioBug ==
    ChainedBug(HandlerDates, "normal",
               <<HandlerDates.release_date - 20, HandlerDates.release_date + 10>>,
               <<"minor", "critical">>)

\* Every severity the record mentions.
MentionedSeverities(bug) ==
    {bug.severity}
        \cup {SeverityChanges(bug)[k].removed : k \in 1..Len(SeverityChanges(bug))}
        \cup {SeverityChanges(bug)[k].added : k \in 1..Len(SeverityChanges(bug))}

InOneGroup(bug) ==
    /\ ValidValues(bug)
    /\ \A a, b \in MentionedSeverities(bug) : GroupRank(a) = GroupRank(b)

\* The flagged-bug lists after one invocation on empty lists, from the three
\* severities it came to.
FlagsAsClaimed ==
    /\ sev_lowered_and_increased =
          IF /\ Classified
             /\ GroupRank(last.before) > GroupRank(last.at)
             /\ GroupRank(last.after) > GroupRank(last.at)
          THEN <<last.bug.id>> ELSE <<>>
    /\ sev_increased_after_release =
          IF Classified /\ GroupRank(last.after) > GroupRank(last.at)
          THEN <<last.bug.id>> ELSE <<>>

\* C4: the bug is appended to sev_lowered_and_increased exactly when
\* group(before) > group(at_release) and group(after) > group(at_release), and
\* to sev_increased_after_release exactly when group(after) >
\* group(at_release), by group order: a record whose severities all lie in one
\* group is never flagged, and the scenario bug gets normal, minor, critical
\* and is appended to both lists.
C4_Flags ==
    Invoked =>
        /\ FlagsAsClaimed
        /\ InOneGroup(last.bug) =>
              /\ sev_lowered_and_increased = <<>>
              /\ sev_increased_after_release = <<>>
        /\ last.bug = ScenarioBug =>
              /\ last.outcome = "ok"
              /\ last.before = "normal"
              /\ last.at = "minor"
              /\ last.after = "critical"
              /\ sev_lowered_and_increased = <<ScenarioBug.id>>
              /\ sev_increased_after_release = <<ScenarioBug.id>>

\* C4's case: the scenario bug has been handled and is in both lists.
C4_Witness ==
    /\ last.bug = ScenarioBug
    /\ last.outcome = "ok"
    /\ sev_lowered_and_increased = <<ScenarioBug.id>>
    /\ sev_increased_after_release = <<ScenarioBug.id>>

(***************************************************************************)
(* C5: changes after the successor release                                 *)
(***************************************************************************)
NotSeverityChange(change) == ~IsSeverityChange(change)

\* The record without its severity changes after the successor release, its
\* current severity being the old value of the first of them.
Truncated(bug) ==
    [bug EXCEPT
        !.severity = IF AfterCutoff(bug) = {} THEN bug.severity
                     ELSE SeverityChanges(bug)[Earliest(AfterCutoff(bug))].removed,
        !.history = [i \in 1..Len(bug.history) |->
                        IF bug.history[i].when > successor_release_date
                        THEN [bug.history[i] EXCEPT
                                 !.changes = SelectSeq(@, NotSeverityChange)]
                        ELSE bug.history[i]]]

\* The outcome of an invocation on bug, from the walk alone.
WalkOutcome(bug) ==
    LET st == Reconstruct(bug)
    IN  IF st.error # ""
        THEN [error |-> st.error, before |-> "None", at |-> "None", after |-> "None"]
        ELSE [error |-> "", before |-> SevName(st.severity_highest_index_before_release),
              at |-> SevName(st.severity_index_at_release), after |-> SevName(st.severity_highest_index_after_release)]

LastOutcome ==
    [error |-> IF Classified THEN "" ELSE last.outcome,
     before |-> last.before, at |-> last.at, after |-> last.after]

\* C5: for a record with valid severities and a chronologically ordered
\* history, bug_handler comes to the same three severities as for the record
\* with the changes after the successor release removed and the current
\* severity replaced by the old value of the first of them; when every change
\* is after the cut-off the three are the old value of the first change; a
\* change exactly at the successor release still counts.
C5_AfterCutoffExcluded ==
    (Invoked /\ ValidValues(last.bug) /\ AscendingHistory(last.bug)) =>
        LET f == SeverityChanges(last.bug)
        IN  /\ LastOutcome = WalkOutcome(Truncated(last.bug))
            /\ (f # <<>> /\ AfterCutoff(last.bug) = 1..Len(f)) =>
                  /\ Classified
                  /\ last.before = f[1].removed
                  /\ last.at = f[1].removed
                  /\ last.after = f[1].removed
            /\ \A k \in 1..Len(f) :
                  (Classified /\ f[k].when = successor_release_date) =>
                      SeverityRank(last.after) >= SeverityRank(f[k].added)

\* C5's case: a handled record with a change up to the successor release and
\* one after it, whose current severity is not the one at the cut-off.
C5_Witness ==
    /\ Classified
    /\ ValidValues(last.bug) /\ AscendingHistory(last.bug)
    /\ AfterCutoff(last.bug) # {}
    /\ UpToRelease(last.bug) \cup AfterRelease(last.bug) # {}
    /\ Truncated(last.bug).severity # last.bug.severity

(***************************************************************************)
(* C9: values outside the enumeration                                      *)
(***************************************************************************)
\* Change j of history item i is met by the walk: no severity change before it
\* in its item lies after the successor release (the break).
Reached(bug, i, j) ==
    ~ /\ bug.history[i].when > successor_release_date
      /\ \E k \in 1..(j - 1) : IsSeverityChange(bug.history[i].changes[k])

ReachesInvalid(bug) ==
    \/ bug.severity \notin Severities
    \/ \E i \in 1..Len(bug.history) :
          \E j \in 1..Len(bug.history[i].changes) :
             /\ IsSeverityChange(bug.history[i].changes[j])
             /\ Reached(bug, i, j)
             /\ \/ bug.history[i].changes[j].removed \notin Severities
                \/ bug.history[i].changes[j].added \notin Severities

AggregatesUntouched ==
    /\ data_opened = EmptyTable(nightly_start, release_date)
    /\ sev_lowered_and_increased = <<>>
    /\ sev_increased_after_release = <<>>
    /\ completed = 0

\* C9: when the current severity, or the old or new value of a severity change
\* the walk reaches, is outside the enumeration, bug_handler raises instead of
\* classifying, and the table and both lists are as before the invocation.
C9_InvalidSeverityRaises ==
    (Invoked /\ ReachesInvalid(last.bug)) =>
        /\ last.outcome \in {"ValueError", "TypeError"}
        /\ python = 2 => last.outcome = "ValueError"
        /\ last.before = "None" /\ last.at = "None" /\ last.after = "None"
        /\ AggregatesUntouched
        /\ pc = "failed"

\* C9's case: the walk has raised on a severity change whose new value is
\* outside the enumeration, the current severity being inside it.
C9_Witness ==
    /\ last.outcome = "ValueError"
    /\ last.bug.severity \in Severities
    /\ \E k \in 1..Len(SeverityChanges(last.bug)) :
          /\ SeverityChanges(last.bug)[k].removed \in Severities
          /\ SeverityChanges(last.bug)[k].added \notin Severities

(***************************************************************************)
(* C6: the lowered-then-raised list within the raised-after-release list   *)
(***************************************************************************)
InLowered(id) ==
    \E i \in 1..Len(sev_lowered_and_increased) : sev_lowered_and_increased[i] = id

\* A step that appends to sev_lowered_and_increased appends the same bug to
\* sev_increased_after_release.
AppendsToBoth ==
    sev_lowered_and_increased' # sev_lowered_and_increased =>
        \E bug \in pending :
            /\ sev_lowered_and_increased' = Append(sev_lowered_and_increased, bug.id)
            /\ sev_increased_after_release' = Append(sev_increased_after_release, bug.id)

\* C6: every bug appended to sev_lowered_and_increased was appended to
\* sev_increased_after_release by the same invocation: the first list is the
\* second restricted to its own bugs, and is never the longer one.
C6_LoweredWithinIncreased ==
    /\ [](/\ Len(sev_lowered_and_increased) <= Len(sev_increased_after_release)
          /\ sev_lowered_and_increased =
                SelectSeq(sev_increased_after_release, InLowered))
    /\ [][AppendsToBoth]_vars

\* C6's case: two bugs are flagged raised-after-release and only the second of
\* them lowered-then-raised.
C6_Witness ==
    /\ Len(sev_increased_after_release) = 2
    /\ Len(sev_lowered_and_increased) = 1
    /\ sev_lowered_and_increased[1] = sev_increased_after_release[2]

(***************************************************************************)
(* C7: one cell per completed invocation                                   *)
(***************************************************************************)
GroupOfRank(rank) ==
    CASE rank = 0 -> "enhancement"
      [] rank = 1 -> "minor+trivial"
      [] rank = 2 -> "normal"
      [] rank = 3 -> "blocker+critical+major"

\* The cell claimed for a classified invocation.
ClaimedGroup(l) ==
    GroupOfRank(IF GroupRank(l.before) >= GroupRank(l.after)
                THEN GroupRank(l.before) ELSE GroupRank(l.after))

ClaimedWeek(l) == l.bug.creation_time \div 7

RECURSIVE SumOver(_, _)
SumOver(f, keys) ==
    IF keys = {} THEN 0
    ELSE LET k == CHOOSE x \in keys : TRUE
         IN  f[k] + SumOver(f, keys \ {k})

RowTotals(table) == [g \in DOMAIN table |-> SumOver(table[g], DOMAIN table[g])]

TableTotal(table) == SumOver(RowTotals(table), DOMAIN table)

\* A step in which an invocation completes adds 1 to the claimed cell and
\* changes no other; any other step leaves the table alone.
OneCellPerInvocation ==
    IF completed' # completed
    THEN /\ completed' = completed + 1
         /\ ClaimedGroup(last') \in DOMAIN data_opened
         /\ ClaimedWeek(last') \in DOMAIN data_opened[ClaimedGroup(last')]
         /\ data_opened' =
               [data_opened EXCEPT ![ClaimedGroup(last')][ClaimedWeek(last')] = @ + 1]
    ELSE data_opened' = data_opened

\* C7: every invocation that completes adds exactly 1 to exactly one cell of
\* data_opened, the one of the group SEVERITIES_GROUP_LIST[max(group(before),
\* group(after))] and of the creation week; after n completed invocations the
\* counts sum to n.
C7_OneCellPerInvocation ==
    /\ [][OneCellPerInvocation]_vars
    /\ [](TableTotal(data_opened) = completed)

\* C7's case: two invocations have completed, the later one on a bug whose
\* severity before the release is in a higher group than the one after it.
C7_Witness ==
    /\ completed = 2
    /\ last.outcome = "ok"
    /\ GroupRank(last.before) > GroupRank(last.after)
    /\ TableTotal(data_opened) = 2

(***************************************************************************)
(* C8: the table is a function of the bugs fetched                         *)
(***************************************************************************)
\* The bugs the two phases ask for, whatever the sub-windows.
Fetched ==
    {bug \in bugzilla :
        /\ bug.severity # "enhancement"
        /\ ~bug.meta
        /\ \/ bug.creation_time >= nightly_start /\ bug.creation_time < beta_start
           \/ /\ bug.creation_time >= beta_start /\ bug.creation_time < release_date
              /\ bug.status_flag \in BetaStatusValues}

\* The cell of a bug that bug_handler classifies.
CellOf(bug) ==
    LET o == WalkOutcome(bug)
    IN  <<ClaimedGroup([before |-> o.before, after |-> o.after]),
          bug.creation_time \div 7>>

\* The table of one fetch of all the bugs in bugs.
Tally(bugs) ==
    [g \in SeverityGroups |->
        [w \in get_weeks(nightly_start, release_date) |->
            Cardinality({bug \in bugs : CellOf(bug) = <<g, w>>})]]

\* C8: the final table depends only on the set of bugs processed, not on the
\* sub-windows they came in nor on the order of the callbacks: each cell holds
\* the number of fetched bugs of that cell, and no increment is lost.
C8_TableOfFetchedBugs ==
    pc = "done" =>
        /\ data_opened = Tally(Fetched)
        /\ completed = Cardinality(Fetched)

\* C8's case: a finished run in which two bugs created on different days, so
\* returned by different queries, were counted in one cell.
C8_Witness ==
    /\ pc = "done"
    /\ \E a, b \in Fetched :
          /\ a.creation_time # b.creation_time
          /\ CellOf(a) = CellOf(b)
          /\ data_opened[CellOf(a)[1]][CellOf(a)[2]] = 2

(***************************************************************************)
(* C10: the sub-windows                                                    *)
(***************************************************************************)
\* The queries claimed for a phase: [q, min(q + 30 days, end_date)) for
\* q = start_date, start_date + 30 days, ... while q <= end_date.
ClaimedQueries(phase) ==
    IF phase.start_date > phase.end_date THEN <<>>
    ELSE [k \in 1..((phase.end_date - phase.start_date) \div WindowDays + 1) |->
             LET q == phase.start_date + WindowDays * (k - 1)
             IN  [phase |-> phase.name, v1 |-> q,
                  v2 |-> IF q + WindowDays <= phase.end_date
                         THEN q + WindowDays ELSE phase.end_date]]

AllClaimedQueries == ClaimedQueries(phases[1]) \o ClaimedQueries(phases[2])

\* The creation days of a query's range [v1, v2).
DaysOf(q) == q.v1..(q.v2 - 1)

EndOf(q) == IF q.phase = "nightly" THEN beta_start ELSE release_date

QueriesOn(day) == {i \in 1..Len(queries) : day \in DaysOf(queries[i])}

\* C10: the query loop of each phase terminates with one query per sub-window
\* [q, min(q + 30 days, end_date)); the ranges are pairwise disjoint, none is
\* longer than 30 days or extends past end_date, together they are every day
\* from nightly_start to release_date exactly once, and no bug is returned by
\* two queries.
C10_SubWindows ==
    /\ Len(queries) <= Len(AllClaimedQueries)
    /\ queries = SubSeq(AllClaimedQueries, 1, Len(queries))
    /\ pc # "build" => queries = AllClaimedQueries
    /\ (pc = "build" /\ phase_idx <= Len(phases)) =>
          query_start <= phases[phase_idx].end_date + WindowDays
    /\ \A i \in 1..Len(queries) :
          /\ queries[i].v1 <= queries[i].v2
          /\ queries[i].v2 - queries[i].v1 <= WindowDays
          /\ queries[i].v2 <= EndOf(queries[i])
    /\ \A i, j \in 1..Len(queries) :
          i # j => DaysOf(queries[i]) \cap DaysOf(queries[j]) = {}
    /\ pc # "build" =>
          /\ \A day \in nightly_start..(release_date - 1) :
                Cardinality(QueriesOn(day)) = 1
          /\ UNION {DaysOf(queries[i]) : i \in 1..Len(queries)}
                = nightly_start..(release_date - 1)
          /\ UNION {DaysOf(queries[i]) :
                      i \in {n \in 1..Len(queries) : queries[n].phase = "nightly"}}
                = nightly_start..(beta_start - 1)
    /\ \A bug \in bugzilla :
          Cardinality({i \in 1..Len(queries) : Matches(bug, queries[i])}) <= 1

\* C10's case: the loops have ended with three queries for the beta phase, the
\* last of them the empty range at end_date, and two for the nightly phase.
C10_Witness ==
    /\ pc = "done"
    /\ Len(queries) = 5
    /\ queries[5].phase = "beta" /\ queries[5].v1 = queries[5].v2
    /\ queries[2].phase = "nightly" /\ queries[2].v2 - queries[2].v1 < WindowDays
    /\ queries[3].phase = "beta"

(***************************************************************************)
(* C11: the record cache                                                   *)
(***************************************************************************)
\* The run started with --bzdata-load has ended, one way or the other.
LoadRunEnded == bzdata_load_path /\ pc \in {"done", "failed"}

\* The records the saving run wrote, over all its phases.
RECURSIVE CountSaved(_, _)
CountSaved(store, names) ==
    IF names = {} THEN 0
    ELSE LET p == CHOOSE n \in names : TRUE
         IN  Len(store[p]) + CountSaved(store, names \ {p})

SavedRecords == CountSaved(saved_run[1].records, DOMAIN saved_run[1].records)

\* The loading run returned what the saving run returned.
SameAsSaved ==
    /\ data_opened = saved_run[1].data_opened
    /\ sev_lowered_and_increased = saved_run[1].sev_lowered_and_increased
    /\ sev_increased_after_release = saved_run[1].sev_increased_after_release

\* A loading run that read a cache with records of both phases has ended.
C11_LoadedBothPhases ==
    /\ LoadRunEnded
    /\ DOMAIN saved_run[1].records = {"nightly", "beta"}

\* C11: a run with --bzdata-load that reads the cache a run with
\* --bzdata-save wrote, with records of the nightly and of the beta phase,
\* passes every saved record of every phase through bug_handler exactly once
\* and ends with the table and the two flagged-bug lists of the saving run.
C11_RoundTrip ==
    C11_LoadedBothPhases =>
        /\ pc = "done"
        /\ completed = SavedRecords
        /\ SameAsSaved

\* C11, the saving half: the document written holds, under "opened" -> phase
\* -> "data", the records the callbacks of that phase's queries handled, and
\* those are the records the saving run counted.
C11_SavedUnderPhases ==
    cache_file # <<>> =>
        LET doc == cache_file[1]
            store == saved_run[1].records
        IN  /\ DOMAIN store \subseteq {"nightly", "beta"}
            /\ DOMAIN doc = IF SavedRecords = 0 THEN {} ELSE {"opened"}
            /\ \A p \in DOMAIN store :
                  /\ doc["opened"][p].data = store[p]
                  /\ Len(store[p]) > 0
                  /\ \A i \in 1..Len(store[p]) :
                        /\ store[p][i] \in bugzilla
                        /\ p = "nightly" <=> store[p][i].creation_time < beta_start
                        /\ \A j \in 1..Len(store[p]) :
                              store[p][i] = store[p][j] => i = j
            /\ SavedRecords = TableTotal(saved_run[1].data_opened)

\* C11, what the loading run does instead: it never returns.  The lookup of
\* line 243 raises KeyError when the saving run saved no nightly record;
\* otherwise the first call bug_handler(bug_data, data_opened) raises KeyError
\* at line 98, the table being passed where the dict with 'data_opened' and
\* 'phase' is expected.  No record is counted and no beta record is read.
C11_LoadRunFails ==
    bzdata_load_path =>
        /\ pc \in {"load", "failed"}
        /\ completed = 0
        /\ data_opened = EmptyTable(nightly_start, release_date)
        /\ sev_lowered_and_increased = <<>>
        /\ sev_increased_after_release = <<>>
        /\ pc = "failed" =>
              last.outcome = IF "nightly" \in DOMAIN saved_run[1].records
                             THEN "KeyError_other_data"
                             ELSE "KeyError_loaded"

====
